---- MODULE Spec2Model ----
(***************************************************************************)
(* Shell emulator over an in-memory virtual file system                    *)
(* (src/sh_emulator.py).  Strings are sequences of one-character strings,  *)
(* so that splitting, stripping and joining are computed, not assumed.     *)
(* The heap of VNode objects is a sequence of records; an object reference *)
(* is its index, None is Nil.                                              *)
(***************************************************************************)
EXTENDS Integers, Sequences, FiniteSets, TLC

VARIABLES
    nodes,      \* heap: every VNode object ever constructed, by reference
    ROOT,       \* global ROOT
    CWD,        \* global CWD
    HISTORY,    \* global HISTORY
    VFS_ZIP,    \* global VFS_ZIP
    STARTUP,    \* global STARTUP
    VFS_NAME,   \* global VFS_NAME
    pc,         \* position of main(): "main", "startup", "startup_ret", "repl", "exited", "crashed", "hung"
    startup_rc, \* value returned by run_startup (NoCode before it returns)
    exit_code,  \* process exit status (NoCode while running)
    last,       \* argument and result of the latest run_line call
    nread       \* number of lines read so far from the script and the terminal

vars == <<nodes, ROOT, CWD, HISTORY, VFS_ZIP, STARTUP, VFS_NAME, pc, startup_rc, exit_code, last, nread>>

\* ------------------------------------------------------------------ bounds

\* Number of lines a file-system run reads before its input ends.
MaxLinesFs == 2

\* Number of lines an engine run reads before its input ends.
MaxLinesEng == 2

\* Number of lines a long interactive run reads before its input ends.
MaxLinesDeep == 4

\* Number of lines a run on one of the catalog archives reads.
MaxLinesLoad == 2

\* Number of ".." segments in the ascending paths that are tried.
MaxUp == 3

\* ------------------------------------------------------------------ values

Nil == 0
NotFound == 0 - 1
NoCode == 0 - 1

S(str) == <<str>>

Slash == "/"
DotName == <<".">>
DotDotName == <<".", ".">>

\* ------------------------------------------------------------------ str

StartsWith(s, c) == Len(s) > 0 /\ s[1] = c

EndsWith(s, c) == Len(s) > 0 /\ s[Len(s)] = c

RECURSIVE Split(_, _)
Split(s, sep) ==
    IF \A i \in 1..Len(s) : s[i] # sep
    THEN <<s>>
    ELSE LET i == CHOOSE k \in 1..Len(s) : s[k] = sep /\ \A j \in 1..(k - 1) : s[j] # sep
         IN  <<SubSeq(s, 1, i - 1)>> \o Split(SubSeq(s, i + 1, Len(s)), sep)

NonEmpty(parts) == SelectSeq(parts, LAMBDA p : p # <<>>)

RECURSIVE LStrip(_, _)
LStrip(s, c) == IF StartsWith(s, c) THEN LStrip(Tail(s), c) ELSE s

RECURSIVE RStrip(_, _)
RStrip(s, c) == IF EndsWith(s, c) THEN RStrip(SubSeq(s, 1, Len(s) - 1), c) ELSE s

Strip(s, c) == RStrip(LStrip(s, c), c)

RECURSIVE Join(_, _)
Join(parts, sep) ==
    IF parts = <<>> THEN <<>>
    ELSE IF Len(parts) = 1 THEN parts[1]
    ELSE parts[1] \o <<sep>> \o Join(Tail(parts), sep)

Reversed(s) == [i \in 1..Len(s) |-> s[Len(s) + 1 - i]]

\* path.split("/") with the empty segments dropped
PathParts(pth) == NonEmpty(Split(pth, Slash))

\* ------------------------------------------------------------------ node model

NoChildren == [k \in {} |-> Nil]

NewDir(name) ==
    [kind |-> "Dir", name |-> name, perms |-> 493, parent |-> Nil,
     children |-> NoChildren, content |-> <<>>, is_binary |-> FALSE]

NewFile(name, content, is_binary) ==
    [kind |-> "File", name |-> name, perms |-> 420, parent |-> Nil,
     children |-> NoChildren, content |-> content, is_binary |-> is_binary]

IsDir(h, n) == h[n].kind = "Dir"

\* Dir.add: children[node.name] = node; node.parent = self
add(h, self, node) ==
    [h EXCEPT ![self].children = (h[node].name :> node) @@ @,
              ![node].parent = self]

\* Dir.get
get(h, self, name) ==
    IF name \in DOMAIN h[self].children THEN h[self].children[name] ELSE Nil

\* del d.children[name]
DelChild(h, d, name) ==
    [h EXCEPT ![d].children = [k \in (DOMAIN @) \ {name} |-> @[k]]]

\* The parent chain of a node, the node first; cut after fuel links.
RECURSIVE Chain(_, _, _)
Chain(h, n, fuel) ==
    IF h[n].parent = Nil \/ fuel = 0 THEN <<n>>
    ELSE <<n>> \o Chain(h, h[n].parent, fuel - 1)

\* VNode.path never leaves its while loop: the parent chain never reaches a
\* node without parent (it revisits a node).
path_diverges(h, n) == Len(Chain(h, n, Len(h))) > Len(h)

\* VNode.path: "/" + "/".join(reversed(parts)), parts the names up the chain
path(h, n) ==
    LET chain == Chain(h, n, Len(h))
        parts == [i \in 1..(Len(chain) - 1) |-> h[chain[i]].name]
    IN  <<Slash>> \o Join(Reversed(parts), Slash)

\* Nodes reachable from n through children maps (n included).
RECURSIVE Below(_, _, _)
Below(h, seen, fuel) ==
    LET next == seen \cup UNION {{h[d].children[k] : k \in DOMAIN h[d].children} : d \in seen}
    IN  IF next = seen \/ fuel = 0 THEN seen ELSE Below(h, next, fuel - 1)

Subtree(h, n) == Below(h, {n}, Len(h))

Kids(h, n) == {h[n].children[k] : k \in DOMAIN h[n].children}

\* _print_tree recurses without end: some node below n lies below one of its
\* own children (RecursionError).
print_tree_overflows(h, n) ==
    IsDir(h, n) /\ \E m \in Subtree(h, n) : \E c \in Kids(h, m) : m \in Subtree(h, c)

\* ------------------------------------------------------------------ resolver

\* resolve that treats ".." at the root as a missing entry.
RECURSIVE Walk_strict(_, _, _)
Walk_strict(h, node, parts) ==
    IF parts = <<>> THEN node
    ELSE LET p == Head(parts)
         IN  IF p = DotName THEN Walk_strict(h, node, Tail(parts))
             ELSE IF p = DotDotName
                  THEN IF h[node].parent # Nil THEN Walk_strict(h, h[node].parent, Tail(parts))
                       ELSE NotFound
             ELSE IF IsDir(h, node) /\ p \in DOMAIN h[node].children
                  THEN Walk_strict(h, h[node].children[p], Tail(parts))
             ELSE NotFound

RECURSIVE Walk(_, _, _)
Walk(h, node, parts) ==
    IF parts = <<>> THEN node
    ELSE LET p == Head(parts)
         IN  IF p = DotName THEN Walk(h, node, Tail(parts))
             ELSE IF p = DotDotName
                  THEN Walk(h, IF h[node].parent # Nil THEN h[node].parent ELSE node, Tail(parts))
             ELSE IF IsDir(h, node) /\ p \in DOMAIN h[node].children
                  THEN Walk(h, h[node].children[p], Tail(parts))
             ELSE NotFound

\* resolve(path): the node, or NotFound for ShellError
resolve(h, cwd, pth) ==
    IF pth = <<>> \/ pth = DotName THEN cwd
    ELSE Walk(h, IF StartsWith(pth, Slash) THEN ROOT ELSE cwd, PathParts(pth))

\* ------------------------------------------------------------------ listing

\* The printable characters in code point order, from the blank (32) on
\* (the double quote, the backslash and the backtick by name).
Printable ==
    <<" ", "!", "quote", "#", "$", "%", "&", "'", "(", ")", "*", "+", ",", "-", ".", "/",
      "0", "1", "2", "3", "4", "5", "6", "7", "8", "9", ":", ";", "<", "=", ">", "?",
      "@", "A", "B", "C", "D", "E", "F", "G", "H", "I", "J", "K", "L", "M", "N", "O",
      "P", "Q", "R", "S", "T", "U", "V", "W", "X", "Y", "Z", "[", "backslash", "]", "^", "_",
      "backtick", "a", "b", "c", "d", "e", "f", "g", "h", "i", "j", "k", "l", "m", "n", "o",
      "p", "q", "r", "s", "t", "u", "v", "w", "x", "y", "z", "{", "|", "}", "~">>

\* ord(c)
Ord(c) == 31 + (CHOOSE i \in 1..Len(Printable) : Printable[i] = c)

\* a < b for str: the first differing character decides, a proper prefix is
\* smaller.
RECURSIVE StrLess(_, _)
StrLess(a, b) ==
    IF b = <<>> THEN FALSE
    ELSE IF a = <<>> THEN TRUE
    ELSE IF Head(a) = Head(b) THEN StrLess(Tail(a), Tail(b))
    ELSE Ord(Head(a)) < Ord(Head(b))

\* sorted(names)
RECURSIVE Sorted(_)
Sorted(names) ==
    IF names = {} THEN <<>>
    ELSE LET least == CHOOSE a \in names : \A b \in names \ {a} : StrLess(a, b)
         IN  <<least>> \o Sorted(names \ {least})

\* str(n) for n >= 0
RECURSIVE Decimal(_)
Decimal(n) ==
    IF n < 10 THEN <<Printable[17 + n]>>
    ELSE Decimal(n \div 10) \o <<Printable[17 + (n % 10)]>>

\* triad(bits): bits & 4, bits & 2, bits & 1
triad(bits) ==
    <<IF (bits \div 4) % 2 = 1 THEN "r" ELSE "-",
      IF (bits \div 2) % 2 = 1 THEN "w" ELSE "-",
      IF bits % 2 = 1 THEN "x" ELSE "-">>

\* _fmt_perms: (mode >> 6) & 7, (mode >> 3) & 7, mode & 7
_fmt_perms(mode, is_dir) ==
    <<IF is_dir THEN "d" ELSE "-">>
        \o triad((mode \div 64) % 8) \o triad((mode \div 8) % 8) \o triad(mode % 8)

Tab == "\t"

\* _fmt_long: the line that ls prints for a node
_fmt_long(h, node) ==
    _fmt_perms(h[node].perms, IsDir(h, node)) \o <<Tab>>
        \o (IF IsDir(h, node) THEN <<"d", "i", "r">>
            ELSE IF h[node].is_binary THEN <<"b", "i", "n">> ELSE <<"t", "x", "t">>)
        \o <<Tab>> \o h[node].name
        \o (IF IsDir(h, node) THEN <<>>
            ELSE <<Tab>> \o Decimal(Len(h[node].content)) \o <<"B">>)

\* The lines cmd_ls prints on the standard output.
ls_prints(h, cwd, args) ==
    LET pth == IF Len(args) > 0 THEN args[1] ELSE <<>>
        node == resolve(h, cwd, pth)
    IN  IF node = NotFound THEN <<>>
        ELSE IF IsDir(h, node)
             THEN LET names == Sorted(DOMAIN h[node].children)
                  IN  [i \in 1..Len(names) |-> _fmt_long(h, h[node].children[names[i]])]
        ELSE <<_fmt_long(h, node)>>

\* ------------------------------------------------------------------ handlers

\* What a handler leaves behind: the heap, CWD, its exit code, and whether it
\* returned ("ok"), left through an exception nobody catches ("raise") or
\* never returns ("hang").
Ret(h, cwd, rc) == [nodes |-> h, CWD |-> cwd, rc |-> rc, status |-> "ok"]

Raise(h, cwd) == [nodes |-> h, CWD |-> cwd, rc |-> NoCode, status |-> "raise"]

Hang(h, cwd) == [nodes |-> h, CWD |-> cwd, rc |-> NoCode, status |-> "hang"]

\* cmd_ls that reports a lookup failure with the "not found" code.
cmd_ls_127(h, cwd, args) ==
    LET pth == IF Len(args) > 0 THEN args[1] ELSE <<>>
    IN  IF resolve(h, cwd, pth) = NotFound THEN Ret(h, cwd, 127) ELSE Ret(h, cwd, 0)

cmd_ls(h, cwd, args) ==
    LET pth == IF Len(args) > 0 THEN args[1] ELSE <<>>
        node == resolve(h, cwd, pth)
    IN  IF node = NotFound THEN Ret(h, cwd, 1) ELSE Ret(h, cwd, 0)

\* cmd_cd without the directory check.
cmd_cd_anynode(h, cwd, args) ==
    IF Len(args) # 1 THEN Ret(h, cwd, 1)
    ELSE IF resolve(h, cwd, args[1]) = NotFound THEN Ret(h, cwd, 1)
    ELSE Ret(h, resolve(h, cwd, args[1]), 0)

cmd_cd(h, cwd, args) ==
    IF Len(args) # 1 THEN Ret(h, cwd, 1)
    ELSE LET node == resolve(h, cwd, args[1])
         IN  IF node = NotFound THEN Ret(h, cwd, 1)
             ELSE IF ~IsDir(h, node) THEN Ret(h, cwd, 1)
             ELSE Ret(h, node, 0)

cmd_pwd(h, cwd, args) ==
    IF Len(args) > 0 THEN Ret(h, cwd, 1)
    ELSE IF path_diverges(h, cwd) THEN Hang(h, cwd)
    ELSE Ret(h, cwd, 0)

cmd_history(h, cwd, args) ==
    IF Len(args) > 0 THEN Ret(h, cwd, 1) ELSE Ret(h, cwd, 0)

cmd_tree(h, cwd, args) ==
    LET pth == IF Len(args) > 0 THEN args[1] ELSE <<>>
        node == resolve(h, cwd, pth)
    IN  IF node = NotFound THEN Ret(h, cwd, 1)
        ELSE IF print_tree_overflows(h, node) THEN Raise(h, cwd)
        ELSE Ret(h, cwd, 0)

OctDigits == {"0", "1", "2", "3", "4", "5", "6", "7"}

OctValue(c) == CHOOSE v \in 0..7 : <<"0", "1", "2", "3", "4", "5", "6", "7">>[v + 1] = c

RECURSIVE OctNumber(_, _)
OctNumber(digits, acc) ==
    IF digits = <<>> THEN acc
    ELSE OctNumber(Tail(digits), acc * 8 + OctValue(Head(digits)))

\* int(mode_str, 8) on texts made of signs and digits: an optional sign, then
\* octal digits; ok = FALSE for ValueError
ParseOctal(str) ==
    LET neg    == StartsWith(str, "-")
        signed == neg \/ StartsWith(str, "+")
        digits == IF signed THEN Tail(str) ELSE str
    IN  IF digits = <<>> \/ \E i \in 1..Len(digits) : digits[i] \notin OctDigits
        THEN [ok |-> FALSE, value |-> 0]
        ELSE [ok |-> TRUE,
              value |-> IF neg THEN 0 - OctNumber(digits, 0) ELSE OctNumber(digits, 0)]

\* cmd_chmod that changes files only and answers 0 for a directory.
cmd_chmod_files_only(h, cwd, args) ==
    IF Len(args) # 2 THEN Ret(h, cwd, 1)
    ELSE LET mode == ParseOctal(args[1])
             node == resolve(h, cwd, args[2])
         IN  IF ~mode.ok THEN Ret(h, cwd, 1)
             ELSE IF node = NotFound THEN Ret(h, cwd, 1)
             ELSE IF IsDir(h, node) THEN Ret(h, cwd, 0)
             ELSE Ret([h EXCEPT ![node].perms = mode.value], cwd, 0)

cmd_chmod(h, cwd, args) ==
    IF Len(args) # 2 THEN Ret(h, cwd, 1)
    ELSE LET mode == ParseOctal(args[1])
             node == resolve(h, cwd, args[2])
         IN  IF ~mode.ok THEN Ret(h, cwd, 1)
             ELSE IF node = NotFound THEN Ret(h, cwd, 1)
             ELSE Ret([h EXCEPT ![node].perms = mode.value], cwd, 0)

\* The loop of cmd_mv over dir_parts: the destination directory, or Nil when
\* a component is missing or is no directory.
RECURSIVE DestDir(_, _, _)
DestDir(h, dest_dir, dir_parts) ==
    IF dir_parts = <<>> THEN dest_dir
    ELSE LET node == IF IsDir(h, dest_dir) THEN get(h, dest_dir, Head(dir_parts)) ELSE Nil
         IN  IF node = Nil THEN Nil
             ELSE IF ~IsDir(h, node) THEN Nil
             ELSE DestDir(h, node, Tail(dir_parts))

\* cmd_mv without the del statement: the source stays listed in its old parent.
MvAttach_nodetach(h, cwd, src_node, dest_dir, new_name) ==
    LET existing   == get(h, dest_dir, new_name)
        into       == existing # Nil /\ IsDir(h, existing)
        new_parent == IF into THEN existing ELSE dest_dir
        new_name_final == IF into THEN h[src_node].name ELSE new_name
    IN  Ret(add([h EXCEPT ![src_node].name = new_name_final], new_parent, src_node), cwd, 0)

\* cmd_mv that forgets to apply the new name.
MvAttach_norename(h, cwd, src_node, dest_dir, new_name) ==
    LET src_parent == h[src_node].parent
        existing   == get(h, dest_dir, new_name)
        into       == existing # Nil /\ IsDir(h, existing)
        new_parent == IF into THEN existing ELSE dest_dir
    IN  IF h[src_node].name \notin DOMAIN h[src_parent].children
        THEN Raise(h, cwd)
        ELSE Ret(add(DelChild(h, src_parent, h[src_node].name), new_parent, src_node), cwd, 0)

\* The tail of cmd_mv: detach, rename, attach.
MvAttach(h, cwd, src_node, dest_dir, new_name) ==
    LET src_parent == h[src_node].parent
        existing   == get(h, dest_dir, new_name)
        into       == existing # Nil /\ IsDir(h, existing)
        new_parent == IF into THEN existing ELSE dest_dir
        new_name_final == IF into THEN h[src_node].name ELSE new_name
    IN  IF h[src_node].name \notin DOMAIN h[src_parent].children
        THEN Raise(h, cwd)
        ELSE LET h1 == DelChild(h, src_parent, h[src_node].name)
                 h2 == [h1 EXCEPT ![src_node].name = new_name_final]
             IN  Ret(add(h2, new_parent, src_node), cwd, 0)

\* cmd_mv that detaches SRC before it walks the destination.
cmd_mv_detach_first(h, cwd, args) ==
    IF Len(args) # 2 THEN Ret(h, cwd, 1)
    ELSE LET src_node == resolve(h, cwd, args[1])
             dst   == IF EndsWith(args[2], Slash) THEN SubSeq(args[2], 1, Len(args[2]) - 1)
                      ELSE args[2]
             base  == IF StartsWith(dst, Slash) THEN ROOT ELSE cwd
             parts == PathParts(dst)
         IN  IF src_node = NotFound THEN Ret(h, cwd, 1)
             ELSE IF h[src_node].parent = Nil THEN Ret(h, cwd, 1)
             ELSE IF parts = <<>> THEN Ret(h, cwd, 1)
             ELSE LET dest_dir == DestDir(h, base, SubSeq(parts, 1, Len(parts) - 1))
                  IN  IF dest_dir = Nil
                      THEN Ret(DelChild(h, h[src_node].parent, h[src_node].name), cwd, 1)
                      ELSE MvAttach(h, cwd, src_node, dest_dir, parts[Len(parts)])

cmd_mv(h, cwd, args) ==
    IF Len(args) # 2 THEN Ret(h, cwd, 1)
    ELSE LET src_node == resolve(h, cwd, args[1])
             dst   == IF EndsWith(args[2], Slash) THEN SubSeq(args[2], 1, Len(args[2]) - 1)
                      ELSE args[2]
             base  == IF StartsWith(dst, Slash) THEN ROOT ELSE cwd
             parts == PathParts(dst)
         IN  IF src_node = NotFound THEN Ret(h, cwd, 1)
             ELSE IF h[src_node].parent = Nil THEN Ret(h, cwd, 1)
             ELSE IF parts = <<>> THEN Ret(h, cwd, 1)
             ELSE LET dest_dir == DestDir(h, base, SubSeq(parts, 1, Len(parts) - 1))
                  IN  IF dest_dir = Nil THEN Ret(h, cwd, 1)
                      ELSE MvAttach(h, cwd, src_node, dest_dir, parts[Len(parts)])

cmd_conf_dump(h, cwd, args) ==
    IF Len(args) > 0 THEN Ret(h, cwd, 1)
    ELSE IF path_diverges(h, cwd) THEN Hang(h, cwd)
    ELSE Ret(h, cwd, 0)

\* ------------------------------------------------------------------ engine

W_ls == <<"l", "s">>
W_cd == <<"c", "d">>
W_pwd == <<"p", "w", "d">>
W_history == <<"h", "i", "s", "t", "o", "r", "y">>
W_tree == <<"t", "r", "e", "e">>
W_chmod == <<"c", "h", "m", "o", "d">>
W_mv == <<"m", "v">>
W_conf_dump == <<"c", "o", "n", "f", "-", "d", "u", "m", "p">>
W_exit == <<"e", "x", "i", "t">>

\* The keys of COMMANDS
COMMANDS == {W_ls, W_cd, W_pwd, W_history, W_tree, W_chmod, W_mv, W_conf_dump, W_exit}

\* COMMANDS.get(cmd)(args) for a key other than exit
Handler(cmd, h, cwd, args) ==
    CASE cmd = W_ls        -> cmd_ls(h, cwd, args)
      [] cmd = W_cd        -> cmd_cd(h, cwd, args)
      [] cmd = W_pwd       -> cmd_pwd(h, cwd, args)
      [] cmd = W_history   -> cmd_history(h, cwd, args)
      [] cmd = W_tree      -> cmd_tree(h, cwd, args)
      [] cmd = W_chmod     -> cmd_chmod(h, cwd, args)
      [] cmd = W_mv        -> cmd_mv(h, cwd, args)
      [] cmd = W_conf_dump -> cmd_conf_dump(h, cwd, args)

Space == " "
Quote == "'"
Newline == "\n"

\* str.strip() leaves nothing
IsBlank(line) == \A i \in 1..Len(line) : line[i] = Space

\* shlex.split on lines of word characters, blanks and single quotes:
\* ok = FALSE for ValueError (a quotation left open).
RECURSIVE Lex(_, _, _, _, _)
Lex(str, inq, started, cur, acc) ==
    IF str = <<>>
    THEN IF inq THEN [ok |-> FALSE, parts |-> <<>>]
         ELSE [ok |-> TRUE, parts |-> IF started THEN Append(acc, cur) ELSE acc]
    ELSE LET c == Head(str)
         IN  IF inq
             THEN IF c = Quote THEN Lex(Tail(str), FALSE, TRUE, cur, acc)
                  ELSE Lex(Tail(str), TRUE, TRUE, Append(cur, c), acc)
             ELSE IF c = Quote THEN Lex(Tail(str), TRUE, TRUE, cur, acc)
             ELSE IF c = Space
                  THEN Lex(Tail(str), FALSE, FALSE, <<>>, IF started THEN Append(acc, cur) ELSE acc)
             ELSE Lex(Tail(str), FALSE, TRUE, Append(cur, c), acc)

shlex_split(line) == Lex(line, FALSE, FALSE, <<>>, <<>>)

\* What run_line leaves behind and returns.
LineRes(h, cwd, hist, should_exit, rc, status) ==
    [nodes |-> h, CWD |-> cwd, HISTORY |-> hist,
     should_exit |-> should_exit, rc |-> rc, status |-> status]

\* run_line that records the line before it tokenizes it.
run_line_records_first(h, cwd, hist, raw, echo) ==
    LET line == RStrip(raw, Newline)
        lexed == shlex_split(line)
        parts == lexed.parts
        hist1 == Append(hist, line)
    IN  IF IsBlank(line) THEN LineRes(h, cwd, hist, FALSE, 0, "ok")
        ELSE IF ~lexed.ok THEN LineRes(h, cwd, hist1, FALSE, 1, "ok")
        ELSE IF Head(parts) = W_exit THEN LineRes(h, cwd, hist1, TRUE, 0, "ok")
        ELSE IF Head(parts) \notin COMMANDS THEN LineRes(h, cwd, hist1, FALSE, 127, "ok")
        ELSE IF echo /\ path_diverges(h, cwd) THEN LineRes(h, cwd, hist1, FALSE, NoCode, "hang")
        ELSE LET r == Handler(Head(parts), h, cwd, Tail(parts))
             IN  LineRes(r.nodes, r.CWD, hist1, FALSE, r.rc, r.status)

run_line(h, cwd, hist, raw, echo) ==
    LET line == RStrip(raw, Newline)
        lexed == shlex_split(line)
        parts == lexed.parts
        hist1 == Append(hist, line)
    IN  IF IsBlank(line) THEN LineRes(h, cwd, hist, FALSE, 0, "ok")
        ELSE IF ~lexed.ok THEN LineRes(h, cwd, hist, FALSE, 1, "ok")
        ELSE IF Head(parts) = W_exit THEN LineRes(h, cwd, hist1, TRUE, 0, "ok")
        ELSE IF Head(parts) \notin COMMANDS THEN LineRes(h, cwd, hist1, FALSE, 127, "ok")
        ELSE IF echo /\ path_diverges(h, cwd) THEN LineRes(h, cwd, hist1, FALSE, NoCode, "hang")
        ELSE LET r == Handler(Head(parts), h, cwd, Tail(parts))
             IN  LineRes(r.nodes, r.CWD, hist1, FALSE, r.rc, r.status)

\* ------------------------------------------------------------------ ingestor

\* What an ingestion step leaves behind: the heap, the directory it reached,
\* and whether it ended in _fatal.
Ensured(h, node, fatal) == [nodes |-> h, node |-> node, fatal |-> fatal]

\* _ensure_dir that makes a new directory for every component, also for one
\* that exists.
RECURSIVE EnsureFrom_always_new(_, _, _)
EnsureFrom_always_new(h, node, parts) ==
    IF parts = <<>> THEN Ensured(h, node, FALSE)
    ELSE LET p   == Head(parts)
             nxt == get(h, node, p)
             d   == Len(h) + 1
         IN  IF nxt = Nil \/ IsDir(h, nxt)
             THEN EnsureFrom_always_new(add(Append(h, NewDir(p)), node, d), d, Tail(parts))
             ELSE Ensured(h, node, TRUE)

RECURSIVE EnsureFrom(_, _, _)
EnsureFrom(h, node, parts) ==
    IF parts = <<>> THEN Ensured(h, node, FALSE)
    ELSE LET p   == Head(parts)
             nxt == get(h, node, p)
             d   == Len(h) + 1
         IN  IF nxt = Nil
             THEN EnsureFrom(add(Append(h, NewDir(p)), node, d), d, Tail(parts))
             ELSE IF IsDir(h, nxt) THEN EnsureFrom(h, nxt, Tail(parts))
             ELSE Ensured(h, node, TRUE)

_ensure_dir(h, pth) == EnsureFrom(h, ROOT, PathParts(Strip(pth, Slash)))

\* str.rpartition("/"): the text before the last slash and the text after it
RPartition(str) ==
    IF \A i \in 1..Len(str) : str[i] # Slash
    THEN [head |-> <<>>, tail |-> str]
    ELSE LET i == CHOOSE k \in 1..Len(str) :
                      str[k] = Slash /\ \A j \in (k + 1)..Len(str) : str[j] # Slash
         IN  [head |-> SubSeq(str, 1, i - 1), tail |-> SubSeq(str, i + 1, Len(str))]

_write_file(h, pth, data, is_binary) ==
    LET rp  == RPartition(Strip(pth, Slash))
        dir == IF rp.head # <<>> THEN _ensure_dir(h, rp.head) ELSE Ensured(h, ROOT, FALSE)
        f   == Len(dir.nodes) + 1
    IN  IF dir.fatal THEN dir
        ELSE Ensured(add(Append(dir.nodes, NewFile(rp.tail, data, is_binary)), dir.node, f),
                     dir.node, FALSE)

\* Payloads are byte sequences.  The value of a base64 digit, Pad for "=",
\* NotB64 for a byte outside the alphabet.
Pad == 64
NotB64 == 65

B64Val(b) ==
    IF b \in 65..90 THEN b - 65
    ELSE IF b \in 97..122 THEN b - 71
    ELSE IF b \in 48..57 THEN b + 4
    ELSE IF b = 43 THEN 62
    ELSE IF b = 47 THEN 63
    ELSE IF b = 61 THEN Pad
    ELSE NotB64

RECURSIVE B64Quads(_)
B64Quads(v) ==
    IF v = <<>> THEN [ok |-> TRUE, bytes |-> <<>>]
    ELSE IF Len(v) < 4 \/ v[1] = Pad \/ v[2] = Pad THEN [ok |-> FALSE, bytes |-> <<>>]
    ELSE IF v[3] = Pad
         THEN IF v[4] = Pad
              THEN [ok |-> TRUE, bytes |-> <<(v[1] * 4 + v[2] \div 16) % 256>>]
              ELSE [ok |-> FALSE, bytes |-> <<>>]
    ELSE IF v[4] = Pad
         THEN [ok |-> TRUE,
               bytes |-> <<(v[1] * 4 + v[2] \div 16) % 256,
                           ((v[2] % 16) * 16 + v[3] \div 4) % 256>>]
    ELSE LET rest == B64Quads(SubSeq(v, 5, Len(v)))
         IN  [ok |-> rest.ok,
              bytes |-> <<(v[1] * 4 + v[2] \div 16) % 256,
                          ((v[2] % 16) * 16 + v[3] \div 4) % 256,
                          ((v[3] % 4) * 64 + v[4]) % 256>> \o rest.bytes]

\* base64.b64decode: bytes outside the alphabet are dropped, then groups of
\* four digits decode to up to three bytes; ok = FALSE for binascii.Error
b64decode(data) ==
    B64Quads(SelectSeq([i \in 1..Len(data) |-> B64Val(data[i])], LAMBDA x : x # NotB64))

B64Suffix == <<".", "b", "6", "4">>

HasB64Suffix(name) ==
    Len(name) >= 4 /\ SubSeq(name, Len(name) - 3, Len(name)) = B64Suffix

\* The body of the loop of load_vfs for one ZipInfo.
LoadEntry(h, zi) ==
    IF EndsWith(zi.filename, Slash) THEN _ensure_dir(h, RStrip(zi.filename, Slash))
    ELSE IF HasB64Suffix(zi.filename)
         THEN LET decoded == b64decode(zi.data)
              IN  IF ~decoded.ok THEN Ensured(h, ROOT, TRUE)
                  ELSE _write_file(h, SubSeq(zi.filename, 1, Len(zi.filename) - 4),
                                   decoded.bytes, TRUE)
    ELSE _write_file(h, zi.filename, zi.data, FALSE)

RECURSIVE LoadEntries(_, _)
LoadEntries(h, infolist) ==
    IF infolist = <<>> THEN Ensured(h, ROOT, FALSE)
    ELSE LET r == LoadEntry(h, Head(infolist))
         IN  IF r.fatal THEN r ELSE LoadEntries(r.nodes, Tail(infolist))

\* load_vfs on an archive [path, state, stem, infolist]; state is "missing",
\* "notzip", "badzip" or "zip".
load_vfs(h, zip) ==
    IF zip.state # "zip" THEN Ensured(h, ROOT, TRUE)
    ELSE LoadEntries(h, zip.infolist)

\* ------------------------------------------------------------------ inputs

\* Archives the process can be started on.
FsZip ==
    [path |-> "fs.zip", state |-> "zip", stem |-> "fs",
     infolist |-> <<[filename |-> <<"a", "/", "x">>, data |-> <<104, 105>>],
                    [filename |-> <<"b", "/", "x", "/">>, data |-> <<>>],
                    [filename |-> <<"y">>, data |-> <<111>>]>>]

EngZip ==
    [path |-> "eng.zip", state |-> "zip", stem |-> "eng",
     infolist |-> <<[filename |-> <<"a", "/", "x", ".", "b", "6", "4">>, data |-> <<97, 71, 107, 61>>],
                    [filename |-> <<"b", "/">>, data |-> <<>>]>>]

BadPadZip ==
    [path |-> "badpad.zip", state |-> "zip", stem |-> "badpad",
     infolist |-> <<[filename |-> <<"f", ".", "b", "6", "4">>, data |-> <<97, 71, 107>>]>>]

MissingZip == [path |-> "missing.zip", state |-> "missing", stem |-> "missing", infolist |-> <<>>]

NoZip == [path |-> "None", state |-> "none", stem |-> "no-vfs", infolist |-> <<>>]

\* Catalog entries: directory markers, text files and a base64 file.
E_d == [filename |-> <<"d", "/">>, data |-> <<>>]

E_de == [filename |-> <<"d", "/", "e", "/">>, data |-> <<>>]

F_d == [filename |-> <<"d">>, data |-> <<102>>]

F_dx == [filename |-> <<"d", "/", "x">>, data |-> <<105>>]

F_dey == [filename |-> <<"d", "/", "e", "/", "y">>, data |-> <<111>>]

B_dx == [filename |-> <<"d", "/", "x", ".", "b", "6", "4">>, data |-> <<97, 71, 107, 61>>]

F_dot_s == [filename |-> <<".", "/", "s">>, data |-> <<115>>]

Zip(name, stem, infolist) == [path |-> name, state |-> "zip", stem |-> stem, infolist |-> infolist]

\* Archives whose catalogs list the same entries in different orders: a
\* directory and a file of the same name, a file and a path below it, a
\* directory and its content, two entries stored under one path, and names
\* taken as they come.
LoadZips ==
    {Zip("dir_file.zip", "dir_file", <<E_d, F_d>>),
     Zip("file_dir.zip", "file_dir", <<F_d, E_d>>),
     Zip("sub_file.zip", "sub_file", <<F_dx, F_d>>),
     Zip("file_sub.zip", "file_sub", <<F_d, F_dx>>),
     Zip("dir_sub.zip", "dir_sub", <<E_d, F_dx>>),
     Zip("sub_dir.zip", "sub_dir", <<F_dx, E_d>>),
     Zip("bin_txt.zip", "bin_txt", <<B_dx, F_dx>>),
     Zip("txt_bin.zip", "txt_bin", <<F_dx, B_dx>>),
     Zip("deep.zip", "deep", <<F_dey, E_de, F_dx>>),
     Zip("deep_r.zip", "deep_r", <<E_d, F_dx, F_dey>>),
     Zip("dots.zip", "dots", <<F_dot_s, E_d>>)}

\* A command line: the words separated by one blank.
Cmd(words) == Join(words, Space)

\* Paths typed in the file-system runs: absolute, relative, dotted, missing
\* and slash-terminated ones.
FsSrcPaths ==
    {<<"/", "a", "/", "x">>, <<"/", "a">>, <<".">>, <<".", ".">>,
     <<"/">>, <<"x">>}

FsDstPaths ==
    {<<"/", "b">>, <<"/", "b", "/">>, <<"/", "b", "/", "x">>, <<"/", "b", "/", "y">>,
     <<"y">>, <<".">>, <<"/">>, <<"/", "a", "/", "x", "/", "y">>,
     <<"/", "n", "/", "y">>}

FsCdPaths ==
    {<<"/", "a">>, <<"/", "b", "/", "x">>, <<"/", "b">>, <<".", ".">>,
     <<"/", "a", "/", "x">>, <<"/", "n">>}

\* Lines typed in the file-system runs.
FsLines ==
    {Cmd(<<W_cd, p>>) : p \in FsCdPaths}
        \cup {Cmd(<<W_mv, s, d>>) : s \in FsSrcPaths, d \in FsDstPaths}
        \cup {Cmd(<<W_cd>>), Cmd(<<W_mv, <<"/", "a">>>>)}

EngPaths == {<<"/", "a">>, <<"/", "a", "/", "x">>, <<"/", "n">>}

EngModes == {<<"7", "0", "0">>, <<"8">>, <<"-", "1">>, <<"7", "7", "7", "7">>}

W_foo == <<"f", "o", "o">>

\* Lines typed or scripted in the engine runs: every command with good and
\* bad arguments, an unknown command, quoted words, blank and unparsable lines.
EngLines ==
    {Cmd(<<c>>) : c \in COMMANDS \cup {W_foo}}
        \cup {Cmd(<<W_cd, p>>) : p \in EngPaths}
        \cup {Cmd(<<c, <<"/", "n">>>>) : c \in {W_ls, W_tree}}
        \cup {Cmd(<<c, <<"x">>>>) : c \in {W_pwd, W_history, W_conf_dump, W_exit, W_mv, W_chmod}}
        \cup {Cmd(<<W_chmod, m, <<"/", "a", "/", "x">>>>) : m \in EngModes}
        \cup {Cmd(<<W_chmod, <<"7", "0", "0">>, <<"/", "n">>>>), Cmd(<<W_chmod, <<"7", "0", "0">>, <<"/", "a">>>>)}
        \cup {Cmd(<<W_mv, <<"/", "a", "/", "x">>, <<"/", "b">>>>), Cmd(<<W_mv, <<"/", "a">>, <<"/", "a", "/", "y">>>>), Cmd(<<W_mv, <<"/", "n">>, <<"/", "b">>>>)}
        \cup {<<>>, <<Space>>, <<Quote>>, <<Quote, Quote>>,
              <<Quote>> \o W_ls \o <<Quote>>,
              <<Space>> \o W_cd \o <<Space, Space>> \o <<"/", "b">> \o <<Space>>}

\* ------------------------------------------------------------------ process

\* Module level of sh_emulator.py: an empty root, CWD = ROOT, no history.
Init ==
    /\ nodes = <<NewDir(<<>>)>>
    /\ ROOT = 1
    /\ CWD = 1
    /\ HISTORY = <<>>
    /\ VFS_ZIP = "None"
    /\ STARTUP = "None"
    /\ VFS_NAME = "no-vfs"
    /\ pc = "main"
    /\ startup_rc = NoCode
    /\ exit_code = NoCode
    /\ last = [raw |-> <<>>, echo |-> FALSE, should_exit |-> FALSE, rc |-> NoCode, status |-> "none"]
    /\ nread = 0

\* Where main goes once the archive is loaded.
AfterLoad(startup) == IF startup # "None" THEN "startup" ELSE "repl"

\* main up to the call of run_startup or repl: the arguments are stored and
\* the archive, if any, is loaded; a fatal load ends the process with 2.
Main(archives, startups) ==
    /\ pc = "main"
    /\ \E zip \in archives, startup \in startups :
        LET loaded == IF zip.path # "None" THEN load_vfs(nodes, zip)
                      ELSE Ensured(nodes, ROOT, FALSE)
        IN  /\ VFS_ZIP' = zip.path
            /\ STARTUP' = startup
            /\ VFS_NAME' = IF zip.state \in {"zip", "badzip"} THEN zip.stem ELSE "no-vfs"
            /\ nodes' = loaded.nodes
            /\ pc' = IF loaded.fatal THEN "exited" ELSE AfterLoad(startup)
            /\ exit_code' = IF loaded.fatal THEN 2 ELSE exit_code
    /\ UNCHANGED <<ROOT, CWD, HISTORY, startup_rc, last, nread>>

\* The effect of one run_line call on the session.
Ran(r, raw, echo) ==
    /\ nodes' = r.nodes
    /\ CWD' = r.CWD
    /\ HISTORY' = r.HISTORY
    /\ last' = [raw |-> raw, echo |-> echo, should_exit |-> r.should_exit,
                rc |-> r.rc, status |-> r.status]
    /\ nread' = nread + 1

\* Where the process is after a run_line call that did not return.
Abnormal(status) == IF status = "hang" THEN "hung" ELSE "crashed"

\* run_startup on a script that does not exist
StartupMissing ==
    /\ pc = "startup"
    /\ STARTUP = "missing.sh"
    /\ startup_rc' = 2
    /\ pc' = "startup_ret"
    /\ UNCHANGED <<nodes, ROOT, CWD, HISTORY, VFS_ZIP, STARTUP, VFS_NAME, exit_code, last, nread>>

\* run_startup that halts on exit code 1 only.
StartupVerdict_only1(r) ==
    IF r.rc = 1 THEN r.rc
    ELSE IF r.should_exit THEN 0
    ELSE NoCode

\* What run_startup does with the result of one line: NoCode to go on.
StartupVerdict(r) ==
    IF r.rc # 0 THEN r.rc
    ELSE IF r.should_exit THEN 0
    ELSE NoCode

\* One round of the loop of run_startup: the next line of the script.
StartupLine(lines, max) ==
    /\ pc = "startup"
    /\ STARTUP # "missing.sh"
    /\ nread < max
    /\ \E line \in lines :
        \E r \in {run_line(nodes, CWD, HISTORY, line \o <<Newline>>, TRUE)} :
            /\ Ran(r, line \o <<Newline>>, TRUE)
            /\ IF r.status # "ok"
               THEN /\ pc' = Abnormal(r.status)
                    /\ exit_code' = IF r.status = "raise" THEN 1 ELSE exit_code
                    /\ UNCHANGED startup_rc
               ELSE /\ startup_rc' = StartupVerdict(r)
                    /\ pc' = IF StartupVerdict(r) # NoCode THEN "startup_ret" ELSE "startup"
                    /\ UNCHANGED exit_code
    /\ UNCHANGED <<ROOT, VFS_ZIP, STARTUP, VFS_NAME>>

\* run_startup at the end of the script
StartupEof ==
    /\ pc = "startup"
    /\ STARTUP # "missing.sh"
    /\ startup_rc' = 0
    /\ pc' = "startup_ret"
    /\ UNCHANGED <<nodes, ROOT, CWD, HISTORY, VFS_ZIP, STARTUP, VFS_NAME, exit_code, last, nread>>

\* main that enters the interactive loop whatever run_startup returned.
MainAfterStartup_ignores ==
    /\ pc = "startup_ret"
    /\ pc' = "repl"
    /\ UNCHANGED <<nodes, ROOT, CWD, HISTORY, VFS_ZIP, STARTUP, VFS_NAME, startup_rc, exit_code, last, nread>>

\* main after run_startup: sys.exit(rc) when rc != 0, else repl()
MainAfterStartup ==
    /\ pc = "startup_ret"
    /\ IF startup_rc # 0
       THEN pc' = "exited" /\ exit_code' = startup_rc
       ELSE pc' = "repl" /\ UNCHANGED exit_code
    /\ UNCHANGED <<nodes, ROOT, CWD, HISTORY, VFS_ZIP, STARTUP, VFS_NAME, startup_rc, last, nread>>

\* repl: the prompt calls CWD.path(), which never returns
ReplPromptHang ==
    /\ pc = "repl"
    /\ path_diverges(nodes, CWD)
    /\ pc' = "hung"
    /\ UNCHANGED <<nodes, ROOT, CWD, HISTORY, VFS_ZIP, STARTUP, VFS_NAME, startup_rc, exit_code, last, nread>>

\* repl: input raises EOFError
ReplEof ==
    /\ pc = "repl"
    /\ ~path_diverges(nodes, CWD)
    /\ pc' = "exited"
    /\ exit_code' = 0
    /\ UNCHANGED <<nodes, ROOT, CWD, HISTORY, VFS_ZIP, STARTUP, VFS_NAME, startup_rc, last, nread>>

\* Where repl goes after a run_line call that returned.
ReplVerdict(r) == IF r.should_exit THEN "exited" ELSE "repl"

\* repl: one line is read and run
ReplLine(lines, max) ==
    /\ pc = "repl"
    /\ ~path_diverges(nodes, CWD)
    /\ nread < max
    /\ \E line \in lines :
        \E r \in {run_line(nodes, CWD, HISTORY, line, FALSE)} :
            /\ Ran(r, line, FALSE)
            /\ IF r.status # "ok"
               THEN /\ pc' = Abnormal(r.status)
                    /\ exit_code' = IF r.status = "raise" THEN 1 ELSE exit_code
               ELSE /\ pc' = ReplVerdict(r)
                    /\ exit_code' = IF r.should_exit THEN 0 ELSE exit_code
    /\ UNCHANGED <<ROOT, VFS_ZIP, STARTUP, VFS_NAME, startup_rc>>

\* The whole process, on the engine inputs.
Next ==
    \/ Main({NoZip, EngZip, MissingZip, BadPadZip}, {"None", "missing.sh", "startup.sh"})
    \/ StartupMissing
    \/ StartupLine(EngLines, MaxLinesEng)
    \/ StartupEof
    \/ MainAfterStartup
    \/ ReplPromptHang
    \/ ReplEof
    \/ ReplLine(EngLines, MaxLinesEng)

Spec == Init /\ [][Next]_vars

\* An interactive session on the file-system archive, no startup script.
NextFs ==
    \/ Main({FsZip}, {"None"})
    \/ ReplPromptHang
    \/ ReplEof
    \/ ReplLine(FsLines, MaxLinesFs)

SpecFs == Init /\ [][NextFs]_vars

\* Lines typed in the long interactive runs: moves around and onto the
\* current directory.
DeepLines ==
    {Cmd(<<W_cd, <<"/", "b", "/", "x">>>>), Cmd(<<W_cd, <<"/", "a">>>>),
     Cmd(<<W_mv, <<"/", "a", "/", "x">>, <<"/", "b">>>>), Cmd(<<W_mv, <<"/", "b", "/", "x">>, <<"/", "b", "/", "y">>>>), Cmd(<<W_mv, <<".">>, <<"y">>>>)}

\* A long interactive session on the file-system archive.
NextDeep ==
    \/ Main({FsZip}, {"None"})
    \/ ReplPromptHang
    \/ ReplEof
    \/ ReplLine(DeepLines, MaxLinesDeep)

SpecDeep == Init /\ [][NextDeep]_vars

\* Lines typed in the runs on the catalog archives.
LoadLines ==
    {Cmd(<<W_cd, <<"/", "d">>>>), Cmd(<<W_mv, <<".">>, <<"z">>>>), Cmd(<<W_ls, <<"/", "d">>>>),
     Cmd(<<W_tree>>), Cmd(<<W_chmod, <<"7", "0", "0">>, <<"/", "d">>>>)}

\* An interactive session on one of the catalog archives.
NextLoad ==
    \/ Main(LoadZips, {"None"})
    \/ ReplPromptHang
    \/ ReplEof
    \/ ReplLine(LoadLines, MaxLinesLoad)

SpecLoad == Init /\ [][NextLoad]_vars

\* ------------------------------------------------------------------ properties

\* The words of a line as run_line sees them (none when it does not tokenize).
Words(raw) == shlex_split(RStrip(raw, Newline)).parts

\* This step is one run_line call that returned.
RanLine == nread' = nread + 1 /\ last'.status = "ok"

\* Nodes the program can still get at: those below the root and the current
\* directory.
Live(h, cwd) == Subtree(h, ROOT) \cup {cwd}

\* The node the parent chain of n ends in (or is cut at).
ChainEnd(h, n) == Chain(h, n, Len(h))[Len(Chain(h, n, Len(h)))]

\* C1: after ingestion and any commands the VFS is a tree: no node that is
\* below the root or is the current directory lies below one of its own
\* children, and its parent chain ends at the root.
C1_TreeShape ==
    \A n \in Live(nodes, CWD) :
        /\ ~path_diverges(nodes, n)
        /\ ChainEnd(nodes, n) = ROOT
        /\ \A c \in Kids(nodes, n) : n \notin Subtree(nodes, c)

\* The destination of mv as cmd_mv computes it: one trailing slash dropped,
\* split into segments, the leading ones walked by child lookup.
DstText(dst) == IF EndsWith(dst, Slash) THEN SubSeq(dst, 1, Len(dst) - 1) ELSE dst

DstBase(cwd, dst) == IF StartsWith(DstText(dst), Slash) THEN ROOT ELSE cwd

DstLeaf(dst) == PathParts(DstText(dst))[Len(PathParts(DstText(dst)))]

DstDir(h, cwd, dst) ==
    IF PathParts(DstText(dst)) = <<>> THEN Nil
    ELSE DestDir(h, DstBase(cwd, dst),
                 SubSeq(PathParts(DstText(dst)), 1, Len(PathParts(DstText(dst))) - 1))

\* The file f, listed in p before, is listed in d under its old name after
\* the step, and is otherwise as it was.
MovedInto(f, p, d) ==
    /\ last'.rc = 0
    /\ nodes[f].name \notin DOMAIN nodes'[p].children
    /\ nodes[f].name \in DOMAIN nodes'[d].children
    /\ nodes'[d].children[nodes[f].name] = f
    /\ nodes'[f].name = nodes[f].name
    /\ nodes'[f].content = nodes[f].content
    /\ nodes'[f].is_binary = nodes[f].is_binary
    /\ nodes'[f].perms = nodes[f].perms

\* C2 as stated: for a file SRC with parent P and a DST that names (resolves
\* to) a directory D other than P, mv SRC DST returns 0 and moves the file
\* into D under its old name, unchanged.
C2_DirTargetAsStated ==
    [][RanLine =>
        \A wd \in {Words(last'.raw)} :
            (Len(wd) = 3 /\ wd[1] = W_mv) =>
                \A f \in {resolve(nodes, CWD, wd[2])}, d \in {resolve(nodes, CWD, wd[3])} :
                    (f # NotFound /\ d # NotFound /\ ~IsDir(nodes, f) /\ IsDir(nodes, d)
                        /\ d # nodes[f].parent)
                    => MovedInto(f, nodes[f].parent, d)]_vars

\* C2 as amended: the same, for a DST whose final segment names, by child
\* lookup in the destination directory that cmd_mv walks to, a directory D
\* other than P.
C2_DirTargetMove ==
    [][RanLine =>
        \A wd \in {Words(last'.raw)} :
            (Len(wd) = 3 /\ wd[1] = W_mv) =>
                \A f \in {resolve(nodes, CWD, wd[2])}, b \in {DstDir(nodes, CWD, wd[3])} :
                    (f # NotFound /\ ~IsDir(nodes, f) /\ b # Nil) =>
                        \A d \in {get(nodes, b, DstLeaf(wd[3]))} :
                            (d # Nil /\ IsDir(nodes, d) /\ d # nodes[f].parent)
                            => MovedInto(f, nodes[f].parent, d)]_vars

\* C2 witness: "mv /a/x /b/x" on the fresh tree returned 0 and the file is
\* now /b/x/x.
C2_Witness ==
    /\ nread = 1 /\ last.rc = 0
    /\ Words(last.raw) = <<W_mv, <<"/", "a", "/", "x">>, <<"/", "b", "/", "x">>>>
    /\ \E f \in Subtree(nodes, ROOT) :
        ~IsDir(nodes, f) /\ path(nodes, f) = <<"/", "b", "/", "x", "/", "x">> /\ nodes[f].content = <<104, 105>>

\* Every children map that lists node n.
ListedIn(h, n) == {d \in 1..Len(h) : n \in Kids(h, d)}

\* The node n, moved by this step, is listed in b under y with its content
\* kept; the old path src resolves no more; the file old that b listed under
\* y before (if any) is gone from the tree.
RenamedTo(n, src, b, y, old) ==
    /\ last'.rc = 0
    /\ resolve(nodes', CWD', src) = NotFound
    /\ y \in DOMAIN nodes'[b].children
    /\ nodes'[b].children[y] = n
    /\ nodes'[n].content = nodes[n].content
    /\ old # Nil => (old \notin Subtree(nodes', ROOT) /\ ListedIn(nodes', old) = {})

\* C3 as stated: for every existing SRC and every DST, a different path, whose
\* directory components exist as directories and whose final segment y is
\* absent or a file in the destination directory B, mv SRC DST returns 0,
\* SRC resolves no more, B lists the moved node under y with its content
\* kept, and a file that was under y is gone.
C3_RenameAsStated ==
    [][nread' = nread + 1 =>
        \A wd \in {Words(last'.raw)} :
            (Len(wd) = 3 /\ wd[1] = W_mv) =>
                \A n \in {resolve(nodes, CWD, wd[2])}, b \in {DstDir(nodes, CWD, wd[3])} :
                    (n # NotFound /\ b # Nil /\ wd[2] # wd[3]) =>
                        \A old \in {get(nodes, b, DstLeaf(wd[3]))} :
                            (old = Nil \/ ~IsDir(nodes, old))
                            => (last'.status = "ok"
                                /\ RenamedTo(n, wd[2], b, DstLeaf(wd[3]), old))]_vars

\* SRC is made of one or more segments, none of them "." or "..".
PlainPath(src) ==
    /\ PathParts(src) # <<>>
    /\ \A i \in 1..Len(PathParts(src)) : PathParts(src)[i] \notin {DotName, DotDotName}

\* C3 as amended: the same for every SRC made only of names (at least one
\* segment, none of them "." or ".."), when DST denotes another directory
\* entry than the one SRC is listed under.
C3_RenameMove ==
    [][nread' = nread + 1 =>
        \A wd \in {Words(last'.raw)} :
            (Len(wd) = 3 /\ wd[1] = W_mv /\ PlainPath(wd[2])) =>
                \A n \in {resolve(nodes, CWD, wd[2])}, b \in {DstDir(nodes, CWD, wd[3])} :
                    (n # NotFound /\ b # Nil) =>
                        \A old \in {get(nodes, b, DstLeaf(wd[3]))} :
                            ((old = Nil \/ ~IsDir(nodes, old))
                                /\ <<b, DstLeaf(wd[3])>> # <<nodes[n].parent, nodes[n].name>>)
                            => (last'.status = "ok"
                                /\ RenamedTo(n, wd[2], b, DstLeaf(wd[3]), old))]_vars

\* C3 witness: "mv /a/x y" typed at the root of the fresh tree returned 0;
\* /y is now the moved file and the file that was /y is gone.
C3_Witness ==
    /\ nread = 1 /\ last.rc = 0
    /\ Words(last.raw) = <<W_mv, <<"/", "a", "/", "x">>, <<"y">>>>
    /\ \E f \in Subtree(nodes, ROOT) :
        path(nodes, f) = <<"/", "y">> /\ nodes[f].content = <<104, 105>>
    /\ \A g \in Subtree(nodes, ROOT) : nodes[g].content # <<111>>

\* C4: the script runner stops at the first line whose exit code is not 0 and
\* returns that code; it stops with 0 at the first exit line and at the end
\* of the script; once it has returned, no script line runs and nothing of
\* the session changes until main has acted on the code.
C4_ScriptStopsAtFirstFailure ==
    [][/\ (pc = "startup" /\ RanLine) =>
            IF last'.rc # 0 THEN pc' = "startup_ret" /\ startup_rc' = last'.rc
            ELSE IF last'.should_exit THEN pc' = "startup_ret" /\ startup_rc' = 0
            ELSE pc' = "startup" /\ startup_rc' = NoCode
       /\ (pc = "startup" /\ STARTUP # "missing.sh" /\ nread' = nread /\ pc' = "startup_ret")
            => startup_rc' = 0
       /\ (nread' = nread + 1 /\ last'.echo) => pc = "startup"
       /\ pc = "startup_ret" => (nodes' = nodes /\ CWD' = CWD /\ HISTORY' = HISTORY /\ nread' = nread)
      ]_vars

\* C4 witness: the second line of a script, "cd /n", returned 1 and
\* run_startup returned 1 with both lines in the history.
C4_Witness ==
    /\ pc = "startup_ret" /\ startup_rc = 1 /\ last.echo /\ last.rc = 1
    /\ nread = 2 /\ Len(HISTORY) = 2
    /\ Words(last.raw) = <<W_cd, <<"/", "n">>>>

\* C5: a script run that returns a code other than 0 (2 for a missing
\* script) ends the process with that code, and the interactive loop is not
\* entered; it is entered after a script run that returned 0, on the state
\* the script left, or straight after loading when no script is configured.
C5_ProcessComposition ==
    [][/\ pc = "startup_ret" =>
            IF startup_rc # 0 THEN pc' = "exited" /\ exit_code' = startup_rc
            ELSE /\ pc' = "repl" /\ exit_code' = NoCode
                 /\ nodes' = nodes /\ CWD' = CWD /\ HISTORY' = HISTORY
       /\ (pc' = "repl" /\ pc # "repl") =>
            \/ pc = "startup_ret" /\ startup_rc = 0
            \/ pc = "main" /\ STARTUP' = "None"
       /\ (pc = "main" /\ pc' # "exited") => pc' = IF STARTUP' = "None" THEN "repl" ELSE "startup"
       /\ (pc = "startup" /\ STARTUP = "missing.sh") => (pc' = "startup_ret" /\ startup_rc' = 2)
      ]_vars

\* C5 witness: the process ended with 2 because the script is missing, and
\* no line was ever read.
C5_Witness ==
    /\ pc = "exited" /\ exit_code = 2 /\ startup_rc = 2
    /\ STARTUP = "missing.sh" /\ VFS_ZIP = "eng.zip" /\ nread = 0

\* C6: in interactive mode run_line always returns its pair; no command
\* ends the session with an error nobody handles.
C6_InteractiveSurvives == pc # "crashed"

\* C7: run_line returns 127 exactly for a line that tokenizes and whose first
\* word is no key of the command table (exit is a key); all other codes are
\* 0 or 1; a line answered with 127 only adds itself to the history.
C7_UnknownCommand ==
    [][RanLine =>
        \A line \in {RStrip(last'.raw, Newline)} : \A lx \in {shlex_split(line)} :
            /\ last'.rc \in {0, 1, 127}
            /\ last'.rc = 127 <=> (lx.ok /\ lx.parts # <<>> /\ lx.parts[1] \notin COMMANDS)
            /\ last'.rc = 127 =>
                /\ ~last'.should_exit
                /\ nodes' = nodes /\ CWD' = CWD
                /\ HISTORY' = Append(HISTORY, line)]_vars

\* C7 witness: "foo" was answered with 127 and is the newest history entry.
C7_Witness ==
    /\ last.rc = 127 /\ Words(last.raw) = <<W_foo>>
    /\ HISTORY # <<>> /\ HISTORY[Len(HISTORY)] = W_foo

\* C8: a blank line returns (false, 0) and a line that does not tokenize
\* returns (false, 1), both leaving the history alone; every other line is
\* appended once, at the end, whatever comes of it; nothing else touches
\* the history.
C8_HistoryRecording ==
    [][/\ nread' = nread => HISTORY' = HISTORY
       /\ nread' = nread + 1 =>
            \A line \in {RStrip(last'.raw, Newline)} :
                IF IsBlank(line)
                THEN HISTORY' = HISTORY /\ last'.rc = 0 /\ ~last'.should_exit
                ELSE IF ~shlex_split(line).ok
                THEN HISTORY' = HISTORY /\ last'.rc = 1 /\ ~last'.should_exit
                ELSE HISTORY' = Append(HISTORY, line)]_vars

\* C8 witness: of two lines typed, the first is in the history and the
\* second, which does not tokenize, returned 1 and is not.
C8_Witness ==
    /\ nread = 2 /\ Len(HISTORY) = 1 /\ ~last.echo
    /\ ~IsBlank(last.raw) /\ ~shlex_split(last.raw).ok /\ last.rc = 1

\* C9: only a cd with one argument that resolves to a directory changes CWD
\* (to that directory, returning 0); any other cd returns 1 and leaves it;
\* no other line changes it; ROOT never changes.
C9_OnlyCdMovesCwd ==
    [][/\ ROOT' = ROOT
       /\ (nread' = nread \/ last'.status # "ok") => CWD' = CWD
       /\ RanLine =>
            \A wd \in {Words(last'.raw)} :
            \A to \in {IF Len(wd) = 2 THEN resolve(nodes, CWD, wd[2]) ELSE NotFound} :
                IF wd # <<>> /\ wd[1] = W_cd
                THEN IF to # NotFound /\ nodes[IF to = NotFound THEN ROOT ELSE to].kind = "Dir"
                     THEN CWD' = to /\ last'.rc = 0
                     ELSE CWD' = CWD /\ last'.rc = 1
                ELSE CWD' = CWD]_vars

\* C9 witness: "cd /a" returned 0 and the current directory is /a.
C9_Witness ==
    /\ last.rc = 0 /\ Words(last.raw) = <<W_cd, <<"/", "a">>>>
    /\ CWD # ROOT /\ path(nodes, CWD) = <<"/", "a">>

\* A path spelled from segments: absolute or not, the segments separated by
\* one slash or by two, with or without a trailing slash.
RECURSIVE Glue(_, _)
Glue(segs, sep) ==
    IF Len(segs) = 1 THEN segs[1] ELSE segs[1] \o sep \o Glue(Tail(segs), sep)

Spelling(segs, abs, dbl, trail) ==
    (IF abs THEN <<Slash>> ELSE <<>>)
        \o Glue(segs, IF dbl THEN <<Slash, Slash>> ELSE <<Slash>>)
        \o (IF trail THEN <<Slash>> ELSE <<>>)

\* The node the segments name, one child lookup each; Nil when one is missing.
RECURSIVE Named(_, _, _)
Named(h, node, segs) ==
    IF segs = <<>> THEN node
    ELSE IF get(h, node, Head(segs)) = Nil THEN Nil
    ELSE Named(h, get(h, node, Head(segs)), Tail(segs))

LiveNames == {nodes[n].name : n \in Live(nodes, CWD) \ {ROOT}}

\* C10: for a path made of names of existing nodes (each segment names a
\* child of the node before it), however its slashes are doubled or trailed,
\* resolve succeeds and path() of the result is the canonical absolute form:
\* the base path, then the segments, single slashes, no trailing slash.
C10_RoundTrip ==
    \A segs \in {<<a>> : a \in LiveNames} \cup {<<a, b>> : a, b \in LiveNames} :
        \A abs \in BOOLEAN, dbl \in BOOLEAN, trail \in BOOLEAN :
            Named(nodes, IF abs THEN ROOT ELSE CWD, segs) # Nil =>
                LET r == resolve(nodes, CWD, Spelling(segs, abs, dbl, trail))
                IN  /\ r # NotFound
                    /\ ~path_diverges(nodes, IF r = NotFound THEN ROOT ELSE r)
                    /\ ~path_diverges(nodes, CWD)
                    /\ path(nodes, IF r = NotFound THEN ROOT ELSE r)
                        = <<Slash>> \o Join((IF abs THEN <<>> ELSE PathParts(path(nodes, CWD)))
                                                \o segs, Slash)

\* A path of k ".." segments: relative or absolute, with or without a
\* trailing slash.
Ascent(k, abs, trail) ==
    (IF abs THEN <<Slash>> ELSE <<>>)
        \o Join([i \in 1..k |-> DotDotName], Slash)
        \o (IF trail /\ k > 0 THEN <<Slash>> ELSE <<>>)

\* The node k parent links above n, the top of the chain when it is shorter.
AncestorUp(h, n, k) ==
    LET chain == Chain(h, n, Len(h))
    IN  chain[IF k + 1 < Len(chain) THEN k + 1 ELSE Len(chain)]

\* C11: for every current directory and every path of k ".." segments,
\* resolve does not fail and returns the node k parent links above its start
\* (the root for an absolute path, cwd otherwise); where the chain is shorter
\* than k it returns the top of the chain, and a top with no parent is the root.
C11_AscentAbsorbed ==
    \A k \in 1..MaxUp, abs \in BOOLEAN, trail \in BOOLEAN :
        \A r \in {resolve(nodes, CWD, Ascent(k, abs, trail))} :
            /\ r # NotFound
            /\ r = AncestorUp(nodes, IF abs THEN ROOT ELSE CWD, k)
            /\ nodes[IF r = NotFound THEN ROOT ELSE r].parent = Nil => r = ROOT
            /\ CWD = ROOT => r = ROOT

\* C11 witness: "cd .." typed in /b/x returned 0, the current directory is
\* /b, two levels more than its depth lead to the root, and so does "..".
C11_Witness ==
    /\ nread = 2 /\ last.rc = 0 /\ Words(last.raw) = <<W_cd, DotDotName>>
    /\ CWD # ROOT /\ path(nodes, CWD) = <<"/", "b">>
    /\ resolve(nodes, CWD, Ascent(1, FALSE, FALSE)) = ROOT
    /\ resolve(nodes, CWD, Ascent(3, FALSE, TRUE)) = ROOT

\* The path under which a file entry is stored: the directory segments and
\* the leaf name, the binary-marker suffix dropped.
StoredText(e) ==
    Strip(IF HasB64Suffix(e.filename) THEN SubSeq(e.filename, 1, Len(e.filename) - 4)
          ELSE e.filename, Slash)

IsDirEntry(e) == EndsWith(e.filename, Slash)

FilePath(e) == PathParts(RPartition(StoredText(e)).head) \o <<RPartition(StoredText(e)).tail>>

\* The paths an entry uses as directories: every prefix of its directory part.
DirPaths(e) ==
    LET segs == IF IsDirEntry(e) THEN PathParts(e.filename)
                ELSE PathParts(RPartition(StoredText(e)).head)
    IN  {SubSeq(segs, 1, k) : k \in 1..Len(segs)}

\* One entry uses a path as a file that another uses as a directory or as a
\* directory component.
Collides(infolist) ==
    \E i, j \in 1..Len(infolist) :
        i # j /\ ~IsDirEntry(infolist[i]) /\ FilePath(infolist[i]) \in DirPaths(infolist[j])

\* This step is main loading the archive zip.
Loads(zip) == pc = "main" /\ pc' # "main" /\ VFS_ZIP' = zip.path

\* C12: loading a catalog in which an entry uses a path as a file and
\* another uses it as a directory or directory component ends the process
\* with status 2, in whichever order the two entries come.
C12_CollisionFatal ==
    [][\A zip \in LoadZips :
        (Loads(zip) /\ Collides(zip.infolist)) => (pc' = "exited" /\ exit_code' = 2)]_vars

\* What a tree is made of: for every node below the root its path, kind,
\* content, binary flag and permissions.
Shape(h) ==
    {[path |-> path(h, n), kind |-> h[n].kind, content |-> h[n].content,
      is_binary |-> h[n].is_binary, perms |-> h[n].perms] : n \in Subtree(h, ROOT)}

\* Every order in which the entries of a catalog can be listed.
Orders(infolist) ==
    {[i \in 1..Len(infolist) |-> infolist[f[i]]] :
        f \in {g \in [1..Len(infolist) -> 1..Len(infolist)] :
                    \A i, j \in 1..Len(infolist) : g[i] = g[j] => i = j}}

\* No two entries have the same path text.
DistinctEntryPaths(infolist) ==
    \A i, j \in 1..Len(infolist) : infolist[i].filename = infolist[j].filename => i = j

\* No two file entries are stored under the same path.
DistinctStoredPaths(infolist) ==
    \A i, j \in 1..Len(infolist) :
        (~IsDirEntry(infolist[i]) /\ ~IsDirEntry(infolist[j])
            /\ FilePath(infolist[i]) = FilePath(infolist[j])) => i = j

\* The load that this step made succeeded, and so does the load of every
\* other order of the catalog, with the same tree.
SameTreeInAnyOrder(infolist) ==
    /\ pc' # "exited"
    /\ \A other \in Orders(infolist) :
        \A r \in {load_vfs(nodes, Zip("any", "any", other))} :
            ~r.fatal /\ Shape(r.nodes) = Shape(nodes')

\* C13 as stated: a collision-free catalog with distinct entry paths loads
\* to the same tree (paths, kinds, contents, binary flags, permissions) in
\* every order of its entries.
C13_OrderAsStated ==
    [][\A zip \in LoadZips :
        (Loads(zip) /\ ~Collides(zip.infolist) /\ DistinctEntryPaths(zip.infolist))
        => SameTreeInAnyOrder(zip.infolist)]_vars

\* C13 as amended: the same for a collision-free catalog in which no two
\* file entries are stored under the same path.
C13_OrderIndependent ==
    [][\A zip \in LoadZips :
        (Loads(zip) /\ ~Collides(zip.infolist) /\ DistinctStoredPaths(zip.infolist))
        => SameTreeInAnyOrder(zip.infolist)]_vars

\* C13 witness: the catalog that lists the file d/e/y before its directory
\* d/e/ is loaded: /d/e is a directory holding y, next to the file /d/x.
C13_Witness ==
    /\ pc = "repl" /\ nread = 0 /\ VFS_ZIP = "deep.zip"
    /\ \E e \in Subtree(nodes, ROOT), y \in Subtree(nodes, ROOT), x \in Subtree(nodes, ROOT) :
        /\ IsDir(nodes, e) /\ path(nodes, e) = <<"/", "d", "/", "e">>
        /\ Kids(nodes, e) = {y} /\ nodes[y].content = <<111>>
        /\ path(nodes, x) = <<"/", "d", "/", "x">> /\ nodes[x].content = <<105>>

\* The rwx text of the low nine bits of a mode, the highest bit first.
RwxOf(mode) ==
    [i \in 1..9 |-> IF (mode \div (2 ^ (9 - i))) % 2 = 1
                    THEN <<"r", "w", "x">>[((i - 1) % 3) + 1] ELSE "-"]

\* The lines of a listing that show the rwx text of mode after the kind flag.
ShowsMode(lines, mode) ==
    {i \in 1..Len(lines) : SubSeq(lines[i], 2, 10) = RwxOf(mode)}

\* chmod with these arguments is well formed and its path resolves.
ChmodApplies(args) ==
    /\ Len(args) = 2
    /\ ParseOctal(args[1]).ok
    /\ resolve(nodes, CWD, args[2]) # NotFound

\* This step set the permissions of node n to mode and nothing else.
OnlyPermsSet(n, mode) ==
    /\ last'.rc = 0
    /\ nodes' = [nodes EXCEPT ![n].perms = mode]
    /\ CWD' = CWD

\* This step returned 1 and changed neither the heap nor cwd.
Refused == last'.rc = 1 /\ nodes' = nodes /\ CWD' = CWD

\* C14 as stated: chmod M p with two arguments, a valid octal M and a
\* resolvable p returns 0 and sets the permissions of the resolved file or
\* directory to M and nothing else, and ls p then shows the rwx triads of M;
\* any other chmod returns 1 and changes nothing.
C14_ChmodAsStated ==
    [][RanLine =>
        \A wd \in {Words(last'.raw)} :
            (wd # <<>> /\ wd[1] = W_chmod) =>
                IF ChmodApplies(Tail(wd))
                THEN \A n \in {resolve(nodes, CWD, wd[3])}, m \in {ParseOctal(wd[2]).value} :
                        /\ OnlyPermsSet(n, m)
                        /\ ShowsMode(ls_prints(nodes', CWD', <<wd[3]>>), m) # {}
                ELSE Refused]_vars

\* C14 as amended: the same, ls p showing the triads of M when p resolves to
\* a file (its listing is the one line of the file).
C14_Chmod ==
    [][RanLine =>
        \A wd \in {Words(last'.raw)} :
            (wd # <<>> /\ wd[1] = W_chmod) =>
                IF ChmodApplies(Tail(wd))
                THEN \A n \in {resolve(nodes, CWD, wd[3])}, m \in {ParseOctal(wd[2]).value} :
                        /\ OnlyPermsSet(n, m)
                        /\ ~IsDir(nodes, n) =>
                            /\ Len(ls_prints(nodes', CWD', <<wd[3]>>)) = 1
                            /\ ShowsMode(ls_prints(nodes', CWD', <<wd[3]>>), m) = {1}
                ELSE Refused]_vars

\* C14 witness: "chmod 700 /a/x" returned 0 and the line that "ls /a/x"
\* prints starts with -rwx------.
C14_Witness ==
    /\ last.rc = 0
    /\ Words(last.raw) = <<W_chmod, <<"7", "0", "0">>, <<"/", "a", "/", "x">>>>
    /\ \A l \in {ls_prints(nodes, CWD, <<<<"/", "a", "/", "x">>>>)} :
        Len(l) = 1 /\ SubSeq(l[1], 1, 10) = <<"-", "r", "w", "x", "-", "-", "-", "-", "-", "-">>

\* The cases in which mv is to refuse: a wrong argument count, a SRC that
\* does not resolve or is the root, a destination with no segment, with a
\* missing directory component or with a file as directory component.
MvRefuses(args) ==
    \/ Len(args) # 2
    \/ /\ Len(args) = 2
       /\ \/ resolve(nodes, CWD, args[1]) = NotFound
          \/ resolve(nodes, CWD, args[1]) = ROOT
          \/ DstDir(nodes, CWD, args[2]) = Nil

\* C15: an mv that returns 1 leaves the heap and cwd as they were and adds
\* its line to the history; and mv returns 1 in each of the listed cases.
C15_FailedMvChangesNothing ==
    [][RanLine =>
        \A wd \in {Words(last'.raw)} :
            (wd # <<>> /\ wd[1] = W_mv) =>
                /\ last'.rc = 1 =>
                    /\ nodes' = nodes /\ CWD' = CWD
                    /\ HISTORY' = Append(HISTORY, RStrip(last'.raw, Newline))
                /\ MvRefuses(Tail(wd)) => last'.rc = 1]_vars

\* C15 witness: "mv /a/x /a/x/y", whose destination has the file /a/x as a
\* directory component, returned 1; /a/x is still the file it was.
C15_Witness ==
    /\ nread = 1 /\ last.rc = 1
    /\ Words(last.raw) = <<W_mv, <<"/", "a", "/", "x">>, <<"/", "a", "/", "x", "/", "y">>>>
    /\ \A f \in {resolve(nodes, CWD, <<"/", "a", "/", "x">>)} :
        f # NotFound /\ nodes[f].content = <<104, 105>>

\* C16: every command terminates: no run_line call and no prompt is left
\* waiting for path() to return, and in every state the parent-chain walk
\* of path() and the descent of tree end for every node the commands can
\* name.
C16_EveryCommandTerminates ==
    /\ pc # "hung"
    /\ last.status # "hang"
    /\ \A n \in Live(nodes, CWD) :
        ~path_diverges(nodes, n) /\ ~print_tree_overflows(nodes, n)

\* The nodes below the root before this step that are not below it after.
Lost == Subtree(nodes, ROOT) \ Subtree(nodes', ROOT)

\* C17: after an mv that returned 0 every node that was below the root is
\* still below it, except at most one file: the one that held the final
\* segment of DST as its name in the destination directory.
C17_MvLosesNoData ==
    [][RanLine =>
        \A wd \in {Words(last'.raw)} :
            (Len(wd) = 3 /\ wd[1] = W_mv /\ last'.rc = 0) =>
                \A b \in {DstDir(nodes, CWD, wd[3])} :
                    /\ Cardinality(Lost) <= 1
                    /\ \A n \in Lost :
                        /\ ~IsDir(nodes, n)
                        /\ b # Nil
                        /\ n = get(nodes, IF b = Nil THEN ROOT ELSE b, DstLeaf(wd[3]))]_vars

\* C18: in every state the current directory is a directory below the
\* root, its path() ends, and resolving that path gives the current
\* directory itself.
C18_CwdInTree ==
    /\ IsDir(nodes, CWD)
    /\ CWD \in Subtree(nodes, ROOT)
    /\ ~path_diverges(nodes, CWD)
    /\ resolve(nodes, CWD, path(nodes, CWD)) = CWD

\* C19: in every state no node that the commands can name, other than the
\* root, has an empty name, the name "." or "..", or a name with a slash;
\* and every node below the root is what resolve returns for its path().
C19_NamesLegal ==
    /\ \A n \in Live(nodes, CWD) \ {ROOT} :
        /\ nodes[n].name # <<>>
        /\ nodes[n].name \notin {DotName, DotDotName}
        /\ \A i \in 1..Len(nodes[n].name) : nodes[n].name[i] # Slash
    /\ \A n \in Subtree(nodes, ROOT) : resolve(nodes, CWD, path(nodes, n)) = n

\* C20: in every state the permissions of every node are within the nine
\* rwx bits, 0 to 0o777.
C20_PermsInRange ==
    \A n \in 1..Len(nodes) : nodes[n].perms \in 0..511

====
